---- MODULE Spec2Model ----
(***************************************************************************)
(* A model of lib/dmd.js: the dot matrix display (DMD) with its backing    *)
(* array, its two dirty signals and its painter, and the text printer      *)
(* (DMDTextPrinter) built on dmd.draw.                                      *)
(*                                                                         *)
(* JavaScript values that the code inspects with typeof are records with a *)
(* tag t.  The backing array `data` is a JavaScript array: a function from *)
(* the integer keys that have been assigned to the stored strings, plus    *)
(* its length; an index below length that is no key is a hole (undefined), *)
(* and a negative key is a plain property that does not move length.       *)
(***************************************************************************)
EXTENDS Integers, Sequences, FiniteSets, TLC

VARIABLES
  data,           \* the backing array's assigned keys and their strings
  dataLength,     \* data.length
  dirty,          \* the fully-dirty flag
  dirtyIndicies,  \* the indices set() recorded since they were last drained
  font,           \* the font table handed to print, with the cached widths
  context,        \* the drawing-surface calls the last operation issued
  screen,         \* the color last painted over each cell's square of the canvas
  last,           \* the last call: its arguments, its result, whether it threw
  nCalls,         \* the number of method calls made since construction
  wide            \* whether the behaviour's one wide-input call was made

vars == <<data, dataLength, dirty, dirtyIndicies, font, context, screen, last,
          nCalls, wide>>

(***************************************************************************)
(* Bounds of the model.                                                    *)
(***************************************************************************)
\* columns and rows of dots of the canvas the display is built on
Cols == 3
Rows == 3
\* calls of the display's and the printer's methods made after construction
MaxCalls == 2
\* the longest text handed to print
MaxText == 2
\* consecutive ticks of the timer that are told apart
MaxTicks == 3

(***************************************************************************)
(* JavaScript values                                                       *)
(***************************************************************************)
JsUndefined == [t |-> "undefined"]
JsNull == [t |-> "null"]
JsObject == [t |-> "plainobject"]
JsString(s) == [t |-> "string", s |-> s]
JsNumber(n) == [t |-> "number", n |-> n]
JsBoolean(b) == [t |-> "boolean", b |-> b]
JsArray(a) == [t |-> "array", a |-> a]

\* typeof v
TypeOf(v) ==
  IF v.t \in {"array", "null", "plainobject"} THEN "object" ELSE v.t

\* Array.prototype.join() of an array of numbers: the elements' decimal
\* texts separated by commas
RECURSIVE Join(_)
Join(a) ==
  IF Len(a) = 0 THEN ""
  ELSE IF Len(a) = 1 THEN ToString(a[1])
  ELSE ToString(a[1]) \o "," \o Join(Tail(a))

\* whether color.join() returns (an array) or raises a TypeError (null has
\* no properties, a plain object has no join method)
HasJoin(v) == v.t = "array"

(***************************************************************************)
(* Construction: DMD(canvas, config) with the default config               *)
(***************************************************************************)
dot_size == 20
canvas == [width |-> Cols * dot_size + 7, height |-> Rows * dot_size + 13]
dot_width == canvas.width \div dot_size
dot_height == canvas.height \div dot_size
background == "rgb(60,60,60)"
off == "rgb(50,50,50)"
drawMode == "circle"

(***************************************************************************)
(* The buffer: the part of the state the drawing methods work on, as a     *)
(* record, so that draw, fill and rect can chain their calls of set.       *)
(* threw is TRUE once an exception is propagating out of the method.       *)
(***************************************************************************)
Buffer == [data |-> data, length |-> dataLength, dirty |-> dirty,
           dirtyIndicies |-> dirtyIndicies, threw |-> FALSE]

\* data[i] = v on a JavaScript array
ArrayStore(b, i, v) ==
  [b EXCEPT !.data = [k \in (DOMAIN b.data) \cup {i} |->
                        IF k = i THEN v ELSE b.data[k]],
            !.length = IF i >= b.length THEN i + 1 ELSE b.length]

\* clear without its last statement: the flag is left as it was
dmd_clear_flagKept(b) ==
  [b EXCEPT !.data = [k \in (DOMAIN b.data) \cup (0 .. b.length - 1) |->
                        IF k \in 0 .. b.length - 1 THEN off ELSE b.data[k]]]

\* dmd.clear
dmd_clear(b) ==
  [b EXCEPT !.data = [k \in (DOMAIN b.data) \cup (0 .. b.length - 1) |->
                        IF k \in 0 .. b.length - 1 THEN off ELSE b.data[k]],
            !.dirty = TRUE]

\* the tail of set with x and y exchanged in the index
SetWriteTransposed(b, x, y, color) ==
  LET i == x * dot_width + y
      w == ArrayStore(b, i, color)
  IN [w EXCEPT !.dirtyIndicies = Append(b.dirtyIndicies, i)]

\* the tail of set without the index recorded as dirty
SetWriteUnrecorded(b, x, y, color) == ArrayStore(b, y * dot_width + x, color)

\* the tail of dmd.set, after the color is resolved to a string
SetWrite(b, x, y, color) ==
  LET i == y * dot_width + x
      w == ArrayStore(b, i, color)
  IN [w EXCEPT !.dirtyIndicies = Append(b.dirtyIndicies, i)]

\* dmd.set
dmd_set(b, x, y, color) ==
  IF TypeOf(color) = "object"
  THEN IF HasJoin(color)
       THEN SetWrite(b, x, y, "rgb(" \o Join(color.a) \o ")")
       ELSE [b EXCEPT !.threw = TRUE]
  ELSE IF TypeOf(color) = "undefined"
  THEN SetWrite(b, x, y, off)
  ELSE IF TypeOf(color) # "string"
  THEN b
  ELSE SetWrite(b, x, y, color.s)

(***************************************************************************)
(* The painter                                                             *)
(***************************************************************************)
\* JavaScript's %: the remainder has the sign of the dividend
JsMod(a, n) == IF a >= 0 THEN a % n ELSE 0 - ((0 - a) % n)

\* the pixel origin of led i
LedX(i) == JsMod(i, dot_width) * dot_size
LedY(i) == (i \div dot_width) * dot_size

\* data[i], undefined for a hole
DataAt(d, i) == IF i \in DOMAIN d THEN JsString(d[i]) ELSE JsUndefined

\* updateLed that only flushes the square when asked to flush
updateLed_flushOnly(d, i, flush) ==
  IF flush
  THEN << [op |-> "fillRect", x |-> LedX(i), y |-> LedY(i),
           w |-> dot_size, h |-> dot_size, style |-> JsString(background)] >>
  ELSE << [op |-> "arc", x |-> LedX(i) + dot_size \div 2,
           y |-> LedY(i) + dot_size \div 2, w |-> 0, h |-> 0,
           style |-> DataAt(d, i)] >>

\* updateLed(i, flush): the drawing-surface calls it issues
updateLed(d, i, flush) ==
  (IF flush
   THEN << [op |-> "fillRect", x |-> LedX(i), y |-> LedY(i),
            w |-> dot_size, h |-> dot_size, style |-> JsString(background)] >>
   ELSE << >>)
  \o
  (IF drawMode = "circle"
   THEN << [op |-> "arc", x |-> LedX(i) + dot_size \div 2,
            y |-> LedY(i) + dot_size \div 2, w |-> 0, h |-> 0,
            style |-> DataAt(d, i)] >>
   ELSE << [op |-> "fillRect", x |-> LedX(i), y |-> LedY(i),
            w |-> dot_size, h |-> dot_size, style |-> DataAt(d, i)] >>)

RECURSIVE UpdateFrom(_, _, _, _)
\* updateLed over the indices of a sequence, in order, from its i-th on
UpdateFrom(d, indices, i, flush) ==
  IF i > Len(indices) THEN << >>
  ELSE updateLed(d, indices[i], flush) \o UpdateFrom(d, indices, i + 1, flush)

\* updateLed over the indices of a sequence, in order
UpdateAll(d, indices, flush) == UpdateFrom(d, indices, 1, flush)

\* painter with the background painted before the early return
PainterCalls_backgroundFirst ==
  << [op |-> "fillRect", x |-> 0, y |-> 0, w |-> canvas.width,
      h |-> canvas.height, style |-> JsString(background)] >>
  \o (IF dirty THEN UpdateAll(data, [k \in 1 .. dataLength |-> k - 1], FALSE)
      ELSE UpdateAll(data, dirtyIndicies, TRUE))

\* painter: the calls issued in one tick
PainterCalls ==
  IF ~dirty /\ Len(dirtyIndicies) = 0 THEN << >>
  ELSE IF dirty
  THEN << [op |-> "fillRect", x |-> 0, y |-> 0, w |-> canvas.width,
           h |-> canvas.height, style |-> JsString(background)] >>
       \o UpdateAll(data, [k \in 1 .. dataLength |-> k - 1], FALSE)
  ELSE UpdateAll(data, dirtyIndicies, TRUE)

\* painter without the reset of the collection after a sparse repaint
painter_flags_noDrain(b) ==
  IF ~b.dirty /\ Len(b.dirtyIndicies) = 0 THEN b
  ELSE IF b.dirty THEN [b EXCEPT !.dirty = FALSE]
  ELSE b

\* painter: what one tick leaves of the fully-dirty flag and the collection
painter_flags(b) ==
  IF ~b.dirty /\ Len(b.dirtyIndicies) = 0 THEN b
  ELSE IF b.dirty THEN [b EXCEPT !.dirty = FALSE]
  ELSE [b EXCEPT !.dirtyIndicies = << >>]

(***************************************************************************)
(* draw, fill and rect                                                     *)
(***************************************************************************)
\* the truth value JavaScript gives a value in a condition
Truthy(v) ==
  CASE v.t = "boolean" -> v.b
    [] v.t = "number" -> v.n # 0
    [] v.t = "string" -> v.s # ""
    [] v.t \in {"undefined", "null"} -> FALSE
    [] OTHER -> TRUE

\* a draw that paints every bit, whatever fill says
PaintsAlways(show, forceFill) == TRUE

\* the condition under which draw paints a bit: show || forceFill
Paints(show, forceFill) == show \/ Truthy(forceFill)

RECURSIVE DrawRow(_, _, _, _, _, _, _)
\* the inner loop of dmd.draw, from column j of the row on; r carries the
\* buffer and hasPrinted.  A throwing set ends the call.
DrawRow(r, x, paintingY, row, j, color, forceFill) ==
  IF r.b.threw \/ j >= Len(row) THEN r
  ELSE LET paintingX == x + j
           show == row[j + 1] = 1
       IN IF paintingX >= 0 /\ paintingX < dot_width /\ Paints(show, forceFill)
          THEN LET b2 == dmd_set(r.b, paintingX, paintingY,
                                 IF show THEN color ELSE JsUndefined)
               IN DrawRow([b |-> b2,
                           hasPrinted |-> IF b2.threw THEN r.hasPrinted ELSE TRUE],
                          x, paintingY, row, j + 1, color, forceFill)
          ELSE DrawRow(r, x, paintingY, row, j + 1, color, forceFill)

RECURSIVE DrawRows(_, _, _, _, _, _, _)
\* the outer loop of dmd.draw, from row i of the shape on.  Every row of a
\* shape is an array here, so typeof row === 'object' holds.
DrawRows(r, x, y, shape, i, color, forceFill) ==
  IF r.b.threw \/ i >= Len(shape) THEN r
  ELSE LET paintingY == y + i
       IN IF paintingY >= 0 /\ paintingY < dot_height
          THEN DrawRows(DrawRow(r, x, paintingY, shape[i + 1], 0, color, forceFill),
                        x, y, shape, i + 1, color, forceFill)
          ELSE DrawRows(r, x, y, shape, i + 1, color, forceFill)

\* dmd.draw: the buffer it leaves and the value it returns
dmd_draw(b, x, y, shape, options) ==
  DrawRows([b |-> b, hasPrinted |-> FALSE], x, y, shape, 0,
           options.color, options.fill)

RECURSIVE SetEach(_, _, _)
\* dmd.set on each position of a sequence, in order, up to a throwing one
SetEach(b, cells, color) ==
  IF b.threw \/ Len(cells) = 0 THEN b
  ELSE SetEach(dmd_set(b, Head(cells)[1], Head(cells)[2], color), Tail(cells), color)

\* the positions the two loops of fill and rect visit, in their order:
\* i from x to x+w-1, and for each i, j from y to y+h-1
LoopCells(x, y, w, h) ==
  IF w <= 0 \/ h <= 0 THEN << >>
  ELSE [k \in 1 .. w * h |-> <<x + ((k - 1) \div h), y + ((k - 1) % h)>>]

\* dmd.fill
dmd_fill(b, x, y, w, h, color) == SetEach(b, LoopCells(x, y, w, h), color)

\* the border condition with the bottom row taken one row too low
OnBorderLow(i, j, x, y, w, h) ==
  j = y \/ j = y + h \/ i = x \/ i = x + w - 1

\* the condition under which rect paints the position (i, j)
OnBorder(i, j, x, y, w, h) ==
  j = y \/ j = y + h - 1 \/ i = x \/ i = x + w - 1

\* dmd.rect
dmd_rect(b, x, y, w, h, color) ==
  LET border(c) == OnBorder(c[1], c[2], x, y, w, h)
  IN SetEach(b, SelectSeq(LoopCells(x, y, w, h), border), color)

(***************************************************************************)
(* DMDTextPrinter                                                          *)
(***************************************************************************)
RECURSIVE MaxRowLength(_, _, _)
\* the loop of updateFontData: width, from row i of the glyph on
MaxRowLength(rows, i, width) ==
  IF i >= Len(rows) THEN width
  ELSE MaxRowLength(rows, i + 1,
                    IF Len(rows[i + 1]) > width THEN Len(rows[i + 1]) ELSE width)

\* updateFontData: the glyph with its width cached
updateFontData(characterFont) ==
  [characterFont EXCEPT !.width = JsNumber(MaxRowLength(characterFont.rows, 0, 0))]

\* font.length: the table is an object keyed by single characters, so length
\* is looked up like any other key and is undefined when no key has that name
FontLength(f) == IF "length" \in DOMAIN f THEN f["length"] ELSE JsUndefined

\* i < v for a number i: false when v is undefined (it converts to NaN)
JsLess(i, v) == v.t = "number" /\ i < v.n

RECURSIVE updateFontLoop(_, _)
\* the loop of updateFont, from index i on; r carries the font table and
\* whether reading width of an undefined font[i] raised a TypeError
updateFontLoop(r, i) ==
  IF r.threw \/ ~JsLess(i, FontLength(r.font)) THEN r
  ELSE LET k == ToString(i)
       IN IF k \notin DOMAIN r.font
          THEN [r EXCEPT !.threw = TRUE]
          ELSE updateFontLoop(
                 [r EXCEPT !.font = [r.font EXCEPT ![k] =
                                       IF ~Truthy(r.font[k].width)
                                       THEN updateFontData(r.font[k])
                                       ELSE r.font[k]]],
                 i + 1)

\* DMDTextPrinter.updateFont
printer_updateFont(f) == updateFontLoop([font |-> f, threw |-> FALSE], 0)

\* the cursor advanced without the gap of one column
AdvanceNoGap(currentX, characterFont) == currentX + characterFont.width.n

\* currentX += characterFont.width + 1
Advance(currentX, characterFont) == currentX + characterFont.width.n + 1

RECURSIVE PrintFrom(_, _, _, _, _)
\* the loop of print, from character i of the text on; p carries the buffer,
\* the font, currentX, printed, the draw calls issued so far and what each
\* of them returned
PrintFrom(p, y, text, i, drawOptions) ==
  IF p.b.threw \/ i >= Len(text) \/ ~(p.currentX <= dot_width) THEN p
  ELSE LET c == text[i + 1]
       IN IF c \notin DOMAIN p.font
          THEN PrintFrom(p, y, text, i + 1, drawOptions)
          ELSE LET characterFont == IF ~Truthy(p.font[c].width)
                                    THEN updateFontData(p.font[c])
                                    ELSE p.font[c]
                   d == dmd_draw(p.b, p.currentX, y, characterFont.rows, drawOptions)
               IN PrintFrom(
                    [b |-> d.b,
                     font |-> [p.font EXCEPT ![c] = characterFont],
                     currentX |-> IF d.b.threw THEN p.currentX
                                  ELSE Advance(p.currentX, characterFont),
                     printed |-> IF ~d.b.threw /\ d.hasPrinted
                                 THEN p.printed + 1 ELSE p.printed,
                     draws |-> Append(p.draws, [x |-> p.currentX, y |-> y, c |-> c]),
                     rets |-> Append(p.rets, ~d.b.threw /\ d.hasPrinted)],
                    y, text, i + 1, drawOptions)

\* DMDTextPrinter.print: the loop from its initial values
printer_print(b, f, x, y, text, options) ==
  PrintFrom([b |-> b, font |-> f, currentX |-> x, printed |-> 0, draws |-> << >>,
             rets |-> << >>],
            y, text, 0, [color |-> options.color, fill |-> options.fill])

\* print returning true whatever was printed
PrintResultNonNegative(p) == p.printed >= 0

\* return printed > 0
PrintResult(p) == p.printed > 0

(***************************************************************************)
(* Inputs                                                                  *)
(***************************************************************************)
\* the flat indices of the grid's cells and their columns and rows
GridIndices == 0 .. dot_width * dot_height - 1
GridX == 0 .. dot_width - 1
GridY == 0 .. dot_height - 1

\* coordinates: the grid and one step outside it on every side
XCoords == -1 .. dot_width
YCoords == -1 .. dot_height

\* the columns print starts at: the first, the last, and one past the width
XStarts == {0, dot_width - 1, dot_width + 1}

\* widths and heights of boxes: up to the grid's
Widths == 0 .. dot_width
Heights == 0 .. dot_height

ValidColors == {JsString("red"), JsArray(<<255, 0, 0>>), JsUndefined}
InvalidColors == {JsNumber(7), JsBoolean(TRUE), JsNull, JsObject}
Colors == ValidColors \cup InvalidColors

\* the color of the calls that prepare the grid
Blue == JsString("blue")

\* bitmaps: empty, single bits, a diagonal, the 'A' of three columns, a blank
\* row, and one whose rows differ in length
Shapes == { << >>,
            << <<1>> >>,
            << <<0>> >>,
            << <<1, 0>>, <<0, 1>> >>,
            << <<0, 1, 0>>, <<1, 1, 1>> >>,
            << <<0, 0>> >>,
            << <<1>>, <<0, 1>> >> }

Fills == {JsUndefined, JsBoolean(FALSE), JsBoolean(TRUE)}

\* the font table: three glyphs, none with a cached width yet
Glyph(rows) == [rows |-> rows, width |-> JsUndefined]
FontTable == ("A" :> Glyph(<< <<0, 1, 0>>, <<1, 1, 1>> >>))
          @@ ("i" :> Glyph(<< <<1>>, <<1>> >>))
          @@ (" " :> Glyph(<< <<0, 0>> >>))

\* the texts: up to MaxText characters, 'Z' having no glyph
Alphabet == {"A", "i", " ", "Z"}
Texts == UNION {[1 .. n -> Alphabet] : n \in 0 .. MaxText}

(***************************************************************************)
(* The drawing surface: what the painter's calls leave on the canvas.  A   *)
(* fillRect paints the cells whose square it covers, a filled arc the cell  *)
(* its centre lies in; a fillStyle that is no color string (undefined, for  *)
(* a hole of data) is ignored by the canvas and the style set before stays. *)
(***************************************************************************)
\* the pixel origin of the square of the cell set(x, y) writes, k being
\* y * dot_width + x
CellX(k) == (k % dot_width) * dot_size
CellY(k) == (k \div dot_width) * dot_size

\* whether a call paints over the square of cell k of the grid
PaintedBy(c, k) ==
  IF c.op = "fillRect"
  THEN /\ c.x <= CellX(k) /\ CellX(k) + dot_size <= c.x + c.w
       /\ c.y <= CellY(k) /\ CellY(k) + dot_size <= c.y + c.h
  ELSE /\ CellX(k) <= c.x /\ c.x < CellX(k) + dot_size
       /\ CellY(k) <= c.y /\ c.y < CellY(k) + dot_size

RECURSIVE StyleAfter(_, _)
\* the style in force after the first n of the calls: the color string set
\* last, "#000000" (the canvas's default) before the first
StyleAfter(calls, n) ==
  IF n = 0 THEN "#000000"
  ELSE IF calls[n].style.t = "string" THEN calls[n].style.s
  ELSE StyleAfter(calls, n - 1)

RECURSIVE LastPaint(_, _, _)
\* the last of the first n calls that paints over cell k, 0 if none does
LastPaint(calls, k, n) ==
  IF n = 0 THEN 0
  ELSE IF PaintedBy(calls[n], k) THEN n
  ELSE LastPaint(calls, k, n - 1)

\* the canvas s after the calls: each cell shows the style of the last call
\* that painted over it
Replay(s, calls) ==
  [k \in GridIndices |->
     LET n == LastPaint(calls, k, Len(calls))
     IN IF n = 0 THEN s[k] ELSE StyleAfter(calls, n)]

(***************************************************************************)
(* The state machine                                                       *)
(***************************************************************************)
\* new DMD(canvas): data = new Array(...), dirty = true, dmd.clear()
Init ==
  LET b == dmd_clear([data |-> << >>, length |-> dot_width * dot_height,
                      dirty |-> TRUE, dirtyIndicies |-> << >>, threw |-> FALSE])
  IN /\ data = b.data
     /\ dataLength = b.length
     /\ dirty = b.dirty
     /\ dirtyIndicies = b.dirtyIndicies
     /\ font = FontTable
     /\ context = << >>
     /\ screen = [k \in GridIndices |-> "transparent"]
     /\ last = [op |-> "new"]
     /\ nCalls = 0
     /\ wide = FALSE

\* a method that repaints the cells it recorded before it returns
Leave_repainting(b) ==
  /\ data' = b.data
  /\ dataLength' = b.length
  /\ dirty' = b.dirty
  /\ dirtyIndicies' = b.dirtyIndicies
  /\ context' = UpdateAll(b.data, b.dirtyIndicies, TRUE)
  /\ nCalls' = nCalls + 1
  /\ UNCHANGED screen

\* the state a method of the display leaves behind: the buffer and the dirty
\* signals as the method set them, the drawing surface not touched
Leave(b) ==
  /\ data' = b.data
  /\ dataLength' = b.length
  /\ dirty' = b.dirty
  /\ dirtyIndicies' = b.dirtyIndicies
  /\ context' = << >>
  /\ nCalls' = nCalls + 1
  /\ UNCHANGED screen

\* dmd.clear()
ClearCall ==
  /\ nCalls < MaxCalls
  /\ Leave(dmd_clear(Buffer))
  /\ last' = [op |-> "clear", threw |-> FALSE]
  /\ UNCHANGED <<font, wide>>

\* dmd.set(x, y, color), its arguments drawn from the given sets
SetCall(xs, ys, colors) ==
  /\ nCalls < MaxCalls
  /\ \E x \in xs, y \in ys, color \in colors :
       LET b == dmd_set(Buffer, x, y, color)
       IN /\ Leave(b)
          /\ last' = [op |-> "set", x |-> x, y |-> y, color |-> color,
                      threw |-> b.threw]
  /\ UNCHANGED font

\* dmd.fill(x, y, w, h, color), its arguments drawn from the given sets
FillCall(xs, ys, ws, hs, colors) ==
  /\ nCalls < MaxCalls
  /\ \E x \in xs, y \in ys, w \in ws, h \in hs, color \in colors :
       LET b == dmd_fill(Buffer, x, y, w, h, color)
       IN /\ Leave(b)
          /\ last' = [op |-> "fill", x |-> x, y |-> y, w |-> w, h |-> h,
                      color |-> color, threw |-> b.threw]
  /\ UNCHANGED font

\* Each behaviour makes one call whose arguments range over a wide set (Set,
\* Fill, Rect, Draw or PrintCall below), after calls that prepare the grid:
\* clear, set on the first or the last cell of the grid in blue, and fill of
\* the whole grid in blue.  The timer's ticks come at any time; under Spec, clear also comes
\* after the wide call.
Prepare ==
  /\ ~wide
  /\ \/ SetCall({0}, {0}, {Blue})
     \/ SetCall({dot_width - 1}, {dot_height - 1}, {Blue})
  /\ UNCHANGED wide
Flood ==
  ~wide /\ FillCall({0}, {0}, {dot_width}, {dot_height}, {Blue}) /\ UNCHANGED wide
Clear == ~wide /\ ClearCall
ClearLate == wide /\ ClearCall

Set == ~wide /\ wide' = TRUE /\ SetCall(XCoords, YCoords, Colors)

Fill ==
  /\ ~wide /\ wide' = TRUE
  /\ FillCall(XCoords, YCoords, Widths, Heights,
              {JsString("red"), JsUndefined, JsNull})

\* dmd.rect(x, y, w, h, color), its arguments drawn from the given sets
RectCall(xs, ys, ws, hs, colors) ==
  /\ nCalls < MaxCalls
  /\ \E x \in xs, y \in ys, w \in ws, h \in hs, color \in colors :
       LET b == dmd_rect(Buffer, x, y, w, h, color)
       IN /\ Leave(b)
          /\ last' = [op |-> "rect", x |-> x, y |-> y, w |-> w, h |-> h,
                      color |-> color, threw |-> b.threw]
  /\ UNCHANGED font

Rect ==
  /\ ~wide /\ wide' = TRUE
  /\ RectCall(XCoords, YCoords, Widths, Heights, {JsString("red"), JsUndefined})

\* dmd.draw(x, y, shape, {color, fill}), its arguments drawn from the given
\* sets
DrawCall(xs, ys, shapes, colors, fills) ==
  /\ nCalls < MaxCalls
  /\ \E x \in xs, y \in ys, shape \in shapes, color \in colors, fill \in fills :
       LET d == dmd_draw(Buffer, x, y, shape, [color |-> color, fill |-> fill])
       IN /\ Leave(d.b)
          /\ last' = [op |-> "draw", x |-> x, y |-> y, shape |-> shape,
                      color |-> color, fill |-> fill,
                      ret |-> d.hasPrinted, threw |-> d.b.threw]
  /\ UNCHANGED font

Draw ==
  /\ ~wide /\ wide' = TRUE
  /\ DrawCall(XCoords, {-1, 0, dot_height}, Shapes,
              {JsString("red"), JsUndefined, JsNumber(7), JsNull}, Fills)

\* The wide call of a behaviour whose calls all stay inside the grid, with
\* colors set accepts
SetInGrid ==
  /\ ~wide /\ wide' = TRUE
  /\ SetCall(GridX, GridY, {JsString("red"), JsUndefined})
FillInGrid ==
  /\ ~wide /\ wide' = TRUE
  /\ FillCall({0, 1}, {0, 1}, {1, dot_width - 1}, {1, dot_height - 1},
              {JsString("red")})
RectInGrid ==
  /\ ~wide /\ wide' = TRUE
  /\ RectCall({0, 1}, {0, 1}, {1, dot_width - 1}, {1, dot_height - 1},
              {JsString("red")})
DrawInGrid ==
  /\ ~wide /\ wide' = TRUE
  /\ DrawCall({0, 1}, {0, 1}, Shapes, {JsString("red")},
              {JsUndefined, JsBoolean(TRUE)})

\* printer.print(x, y, text, {font, color, fill})
PrintCall ==
  /\ ~wide /\ wide' = TRUE
  /\ nCalls < MaxCalls
  /\ \E x \in XStarts, y \in {0}, text \in Texts,
        color \in {JsString("red")}, fill \in {JsUndefined, JsBoolean(TRUE)} :
       LET p == printer_print(Buffer, font, x, y, text, [color |-> color, fill |-> fill])
       IN /\ Leave(p.b)
          /\ font' = p.font
          /\ last' = [op |-> "print", x |-> x, y |-> y, text |-> text,
                      color |-> color, fill |-> fill, draws |-> p.draws,
                      rets |-> p.rets, ret |-> PrintResult(p),
                      threw |-> p.b.threw]

\* printer.updateFont(font), before the text is printed
UpdateFont ==
  /\ ~wide
  /\ nCalls < MaxCalls
  /\ LET r == printer_updateFont(font)
     IN /\ font' = r.font
        /\ last' = [op |-> "updateFont", threw |-> r.threw]
  /\ context' = << >>
  /\ nCalls' = nCalls + 1
  /\ UNCHANGED <<data, dataLength, dirty, dirtyIndicies, screen, wide>>

\* one tick of the redraw timer: painter()
Painter ==
  /\ last' = [op |-> "painter",
              n |-> IF last.op # "painter" THEN 1
                    ELSE IF last.n < MaxTicks THEN last.n + 1 ELSE MaxTicks]
  /\ UNCHANGED <<data, dataLength, font, nCalls, wide>>
  /\ LET b == painter_flags(Buffer)
     IN dirty' = b.dirty /\ dirtyIndicies' = b.dirtyIndicies
  /\ \E calls \in {PainterCalls} :
       context' = calls /\ screen' = Replay(screen, calls)

\* the calls and ticks every specification has
Common == Clear \/ Prepare \/ Flood \/ Painter

Next == Common \/ Set \/ ClearLate
Spec == Init /\ [][Next]_vars

NextFill == Common \/ Fill
SpecFill == Init /\ [][NextFill]_vars

NextRect == Common \/ Rect
SpecRect == Init /\ [][NextRect]_vars

NextDraw == Common \/ Draw
SpecDraw == Init /\ [][NextDraw]_vars

NextPrint == Common \/ UpdateFont \/ PrintCall
SpecPrint == Init /\ [][NextPrint]_vars

\* every method of the display, called inside the grid, interleaved with the
\* timer's ticks
NextAll ==
  Common \/ SetInGrid \/ FillInGrid \/ RectInGrid \/ DrawInGrid \/ ClearLate
SpecAll == Init /\ [][NextAll]_vars

\* window.setInterval keeps calling painter: a tick that would change the
\* state is not put off forever
NextLive == Common \/ SetInGrid \/ ClearLate
SpecLive == Init /\ [][NextLive]_vars /\ WF_vars(Painter)

(***************************************************************************)
(* The vocabulary of the properties                                        *)
(***************************************************************************)
\* the column and the row of the cell at a flat index of the grid
Column(k) == k % dot_width
Row(k) == k \div dot_width

InGrid(x, y) == x >= 0 /\ x < dot_width /\ y >= 0 /\ y < dot_height

\* a color argument set accepts: a string, a channel triple, or omitted
IsValidColor(c) ==
  \/ c.t = "string"
  \/ c.t = "undefined"
  \/ c.t = "array" /\ Len(c.a) = 3

\* the string a valid color argument is to be stored as
ColorString(c) ==
  CASE c.t = "string" -> c.s
    [] c.t = "undefined" -> "rgb(50,50,50)"
    [] c.t = "array" ->
         "rgb(" \o ToString(c.a[1]) \o "," \o ToString(c.a[2]) \o ","
                \o ToString(c.a[3]) \o ")"

\* whether a shape placed at (x, y) has a bit over cell k, and that bit
Covers(shape, x, y, k) ==
  /\ Row(k) - y + 1 \in 1 .. Len(shape)
  /\ Column(k) - x + 1 \in 1 .. Len(shape[Row(k) - y + 1])
BitOver(shape, x, y, k) == shape[Row(k) - y + 1][Column(k) - x + 1]

\* the greatest length of a shape's rows, 0 for a shape without rows
ShapeWidth(shape) ==
  IF Len(shape) = 0 THEN 0
  ELSE CHOOSE n \in {Len(shape[r]) : r \in 1 .. Len(shape)} :
         \A r \in 1 .. Len(shape) : Len(shape[r]) <= n

\* whether the last call recorded a dirty index it had not recorded before
RecordedDirty == Len(dirtyIndicies') > Len(dirtyIndicies)

(***************************************************************************)
(* C1..C10                                                                 *)
(***************************************************************************)
\* C1: set(x, y, color) on a cell of the grid with a valid color stores the
\* color's string at index y*width+x (a triple as 'rgb(r,g,b)', an omitted
\* color as the off color), records that index dirty, and changes no other
\* cell.
C1_SetWritesCell ==
  [][ (last'.op = "set" /\ InGrid(last'.x, last'.y) /\ IsValidColor(last'.color))
      => LET i == last'.y * dot_width + last'.x
         IN /\ ~last'.threw
            /\ data'[i] = ColorString(last'.color)
            /\ \E n \in 1 .. Len(dirtyIndicies') : dirtyIndicies'[n] = i
            /\ DOMAIN data' = DOMAIN data
            /\ \A k \in DOMAIN data \ {i} : data'[k] = data[k]
            /\ dataLength' = dataLength ]_vars

\* a triple was set on the middle cell of the second row, over a blue grid
C1_Witness ==
  /\ last.op = "set" /\ last.x = 1 /\ last.y = 1
  /\ last.color = JsArray(<<255, 0, 0>>)
  /\ data[dot_width + 1] = "rgb(255,0,0)"
  /\ data[1] = "blue"
  /\ dirtyIndicies[Len(dirtyIndicies)] = dot_width + 1

\* C2: after clear(), whatever the state before, every cell of the grid holds
\* the off color and the fully-dirty flag is true.
C2_ClearResets ==
  last.op = "clear"
    => /\ \A k \in GridIndices : k \in DOMAIN data /\ data[k] = off
       /\ dirty = TRUE

\* clear came after a fill of the whole grid in blue whose dirty indices are
\* still pending
C2_Witness ==
  /\ last.op = "clear"
  /\ Len(dirtyIndicies) = dot_width * dot_height
  /\ \A k \in GridIndices : data[k] = off
  /\ dirty

\* C3: in every reachable state the backing sequence has exactly
\* width*height cells and every cell holds a color string.
C3_BackingSequenceIntact ==
  /\ dataLength = dot_width * dot_height
  /\ \A k \in 0 .. dataLength - 1 : k \in DOMAIN data

\* C4: fill(x, y, w, h, color) with a valid color sets to that color exactly
\* the grid cells whose (column, row) lies in [x, x+w) x [y, y+h) and leaves
\* every other cell of the grid as it was.
C4_FillPaintsRectangle ==
  [][ (last'.op = "fill" /\ IsValidColor(last'.color))
      => \A k \in GridIndices :
           data'[k] = IF /\ Column(k) \in last'.x .. last'.x + last'.w - 1
                         /\ Row(k) \in last'.y .. last'.y + last'.h - 1
                      THEN ColorString(last'.color)
                      ELSE data[k] ]_vars

\* C5: rect(x, y, w, h, color) with a box of w >= 1 and h >= 1 inside the
\* grid sets to the color exactly the cells of the box's top row, bottom row,
\* left column and right column; the interior and the outside are unchanged.
C5_RectPaintsBorder ==
  [][ ( /\ last'.op = "rect" /\ IsValidColor(last'.color)
        /\ last'.w >= 1 /\ last'.h >= 1 /\ last'.x >= 0 /\ last'.y >= 0
        /\ last'.x + last'.w <= dot_width /\ last'.y + last'.h <= dot_height )
      => \A k \in GridIndices :
           LET inBox == /\ Column(k) \in last'.x .. last'.x + last'.w - 1
                        /\ Row(k) \in last'.y .. last'.y + last'.h - 1
               edge == \/ Row(k) = last'.y
                       \/ Row(k) = last'.y + last'.h - 1
                       \/ Column(k) = last'.x
                       \/ Column(k) = last'.x + last'.w - 1
           IN data'[k] = IF inBox /\ edge THEN ColorString(last'.color)
                         ELSE data[k] ]_vars

\* a red rect around the whole grid, drawn over a blue grid: the corners are
\* red and the cell inside the top left corner is still blue
C5_Witness ==
  /\ last.op = "rect" /\ last.x = 0 /\ last.y = 0
  /\ last.w = dot_width /\ last.h = dot_height
  /\ last.color = JsString("red")
  /\ data[0] = "red" /\ data[dot_width * dot_height - 1] = "red"
  /\ data[dot_width + 1] = "blue"

\* C6: draw with fill false or omitted leaves unchanged every grid cell whose
\* bit of the shape is 0 and every grid cell the shape does not cover.
C6_DrawKeepsUnlit ==
  [][ (last'.op = "draw" /\ ~Truthy(last'.fill))
      => \A k \in GridIndices :
           ( \/ ~Covers(last'.shape, last'.x, last'.y, k)
             \/ BitOver(last'.shape, last'.x, last'.y, k) = 0 )
           => data'[k] = data[k] ]_vars

\* the diagonal was drawn in red at the origin of a blue grid, fill omitted:
\* its lit cells are red, its unlit cells still blue
C6_Witness ==
  /\ last.op = "draw" /\ last.x = 0 /\ last.y = 0
  /\ last.shape = << <<1, 0>>, <<0, 1>> >>
  /\ last.fill = JsUndefined /\ last.color = JsString("red")
  /\ data[0] = "red" /\ data[dot_width + 1] = "red"
  /\ data[1] = "blue" /\ data[dot_width] = "blue"

\* C7: draw with fill = true and a valid color writes every grid cell inside
\* the shape's bounding box (as many rows high as the shape, as wide as its
\* longest row): the lit color where the bit is 1, the off color elsewhere.
C7_DrawFillCoversBox ==
  [][ (last'.op = "draw" /\ last'.fill = JsBoolean(TRUE)
                         /\ IsValidColor(last'.color))
      => \A k \in GridIndices :
           ( /\ Row(k) \in last'.y .. last'.y + Len(last'.shape) - 1
             /\ Column(k) \in last'.x .. last'.x + ShapeWidth(last'.shape) - 1 )
           => data'[k] =
                IF /\ Covers(last'.shape, last'.x, last'.y, k)
                   /\ BitOver(last'.shape, last'.x, last'.y, k) = 1
                THEN ColorString(last'.color) ELSE off ]_vars

\* C8: draw returns true if and only if the call painted at least one grid
\* cell (wrote it and recorded its index dirty).
C8_DrawReturnsPainted ==
  [][ (last'.op = "draw" /\ ~last'.threw)
      => (last'.ret <=> RecordedDirty) ]_vars

\* C9: set with a color that is neither a string, nor a channel triple, nor
\* omitted raises no error and leaves the cells, the dirty indices and the
\* fully-dirty flag unchanged.
C9_InvalidColorIgnored ==
  [][ (last'.op = "set" /\ ~IsValidColor(last'.color))
      => /\ ~last'.threw
         /\ UNCHANGED <<data, dataLength, dirty, dirtyIndicies>> ]_vars

RECURSIVE CursorWalk(_, _, _, _)
\* the draws C10 describes, from character i of the text on: a character
\* without a glyph neither draws nor advances; one with a glyph is drawn at
\* the cursor unless the cursor exceeds the grid's width, and advances the
\* cursor by the glyph's greatest row length plus 1
CursorWalk(text, i, cursor, y) ==
  IF i > Len(text) THEN << >>
  ELSE IF text[i] \notin DOMAIN FontTable
  THEN CursorWalk(text, i + 1, cursor, y)
  ELSE IF cursor > dot_width THEN << >>
  ELSE << [x |-> cursor, y |-> y, c |-> text[i]] >>
       \o CursorWalk(text, i + 1,
                     cursor + ShapeWidth(FontTable[text[i]].rows) + 1, y)

\* C10: the draw calls of print are those of the cursor walk.
C10_PrintWalksCursor ==
  (last.op = "print" /\ ~last.threw)
    => last.draws = CursorWalk(last.text, 1, last.x, last.y)

\* ' i' printed at column 0 with fill omitted: the blank glyph paints nothing
\* and still advances the cursor by 2 + 1, so that 'i' is drawn at column 3
C10_Witness ==
  /\ last.op = "print" /\ last.x = 0 /\ last.fill = JsUndefined
  /\ last.text = <<" ", "i">>
  /\ last.draws = << [x |-> 0, y |-> 0, c |-> " "], [x |-> 3, y |-> 0, c |-> "i"] >>

\* whether every character of the text has a glyph with no lit bit
AllBlank(text) ==
  /\ Len(text) > 0
  /\ \A i \in 1 .. Len(text) :
       /\ text[i] \in DOMAIN FontTable
       /\ \A r \in 1 .. Len(FontTable[text[i]].rows) :
            \A j \in 1 .. Len(FontTable[text[i]].rows[r]) :
              FontTable[text[i]].rows[r][j] # 1

\* C11: print returns true exactly when at least one of the draw calls it
\* issued returned true, and a text whose glyphs are all blank, printed with
\* fill false or omitted, returns false.
C11_PrintReturnsDrawn ==
  (last.op = "print" /\ ~last.threw)
    => /\ last.ret <=> (\E k \in 1 .. Len(last.rets) : last.rets[k])
       /\ (AllBlank(last.text) /\ ~Truthy(last.fill)) => ~last.ret

\* C11 as stated: an all-blank text returns false whatever the fill option
C11_AsStated ==
  (last.op = "print" /\ ~last.threw)
    => /\ last.ret <=> (\E k \in 1 .. Len(last.rets) : last.rets[k])
       /\ AllBlank(last.text) => ~last.ret

\* print(0, 0, '  ') without fill: two blank glyphs drawn, neither draw
\* returned true, and print returned false
C11_Witness ==
  /\ last.op = "print" /\ ~last.threw
  /\ last.text = <<" ", " ">> /\ last.x = 0 /\ ~Truthy(last.fill)
  /\ last.rets = <<FALSE, FALSE>> /\ ~last.ret

\* whether no character of the text has a glyph in the font table
NoGlyph(text) == \A i \in 1 .. Len(text) : text[i] \notin DOMAIN font

\* C12: print of a text none of whose characters has a glyph raises no
\* error, returns false and leaves every cell, the recorded dirty indices and
\* the fully-dirty flag as they were.
C12_PrintSkipsUnknown ==
  [][(last'.op = "print" /\ nCalls' = nCalls + 1 /\ NoGlyph(last'.text))
       => /\ ~last'.threw
          /\ ~last'.ret
          /\ last'.draws = << >>
          /\ UNCHANGED <<data, dataLength, dirtyIndicies, dirty>>]_vars

\* print(0, 0, 'ZZ') after set(0, 0, 'blue'): nothing drawn, false returned,
\* the cell and its recorded index still there
C12_Witness ==
  /\ last.op = "print" /\ last.text = <<"Z", "Z">> /\ last.x = 0
  /\ ~last.ret /\ ~last.threw
  /\ data[0] = "blue" /\ dirtyIndicies = <<0>>

\* C13: after updateFont(font) on a table mapping characters to glyphs, every
\* glyph that lacked a cached width has one, equal to the length of its longest
\* row.
C13_UpdateFontCachesWidths ==
  [][(last'.op = "updateFont" /\ nCalls' = nCalls + 1)
       => /\ ~last'.threw
          /\ \A c \in DOMAIN font :
               ~Truthy(font[c].width)
                 => font'[c].width = JsNumber(ShapeWidth(font[c].rows))]_vars

\* C14: set, draw, fill, rect and clear take effect in the buffer in the very
\* step of the call and issue no drawing-surface call; only a tick of the
\* timer issues drawing-surface calls or changes what the canvas shows.
C14_OnlyPainterPaints ==
  [][
     /\ (nCalls' = nCalls + 1)
          => /\ last'.op \in {"set", "draw", "fill", "rect", "clear"}
             /\ context' = << >> /\ screen' = screen
             /\ last'.op = "set"
                  => data'[last'.y * dot_width + last'.x] = ColorString(last'.color)
             /\ last'.op = "fill"
                  => \A k \in GridIndices :
                       (/\ Column(k) \in last'.x .. last'.x + last'.w - 1
                        /\ Row(k) \in last'.y .. last'.y + last'.h - 1)
                         => data'[k] = ColorString(last'.color)
             /\ last'.op = "clear" => \A k \in GridIndices : data'[k] = off
     /\ (context' # << >> \/ screen' # screen)
          => last'.op = "painter" /\ nCalls' = nCalls
  ]_vars

\* fill(0, 0, 1, 1, 'red') after a tick: the cell holds red, no surface call
\* was issued and the canvas still shows the off color there
C14_Witness ==
  /\ last.op = "fill" /\ last.x = 0 /\ last.y = 0 /\ last.w = 1 /\ last.h = 1
  /\ data[0] = "red"
  /\ context = << >>
  /\ screen[0] = off

\* C15: a tick that starts with the fully-dirty flag true ends with the flag
\* false and the collection of dirty indices empty, whatever the collection
\* held.
C15_FullRepaintClearsBoth ==
  [][(last'.op = "painter" /\ dirty)
       => ~dirty' /\ dirtyIndicies' = << >>]_vars

\* C16: a tick that starts with the fully-dirty flag false and a non-empty
\* collection of dirty indices ends with the collection empty, and no tick
\* changes a stored color.
C16_SparseRepaintDrains ==
  [][last'.op = "painter"
       => /\ data' = data /\ dataLength' = dataLength
          /\ (~dirty /\ Len(dirtyIndicies) > 0)
               => ~dirty' /\ dirtyIndicies' = << >>]_vars

\* after set(0, 0, 'blue') and two ticks: the second tick repainted the one
\* recorded cell and emptied the collection, the cell still blue
C16_Witness ==
  /\ last.op = "painter"
  /\ Len(context) = 2 /\ context[2].style = Blue
  /\ ~dirty /\ dirtyIndicies = << >>
  /\ data[0] = "blue"

\* C17: a tick that starts with the fully-dirty flag false and the collection
\* of dirty indices empty issues no drawing-surface call and changes nothing
\* of the display's state nor of the canvas.
C17_IdleTickDoesNothing ==
  [][(last'.op = "painter" /\ ~dirty /\ dirtyIndicies = << >>)
       => /\ context' = << >>
          /\ UNCHANGED <<data, dataLength, dirty, dirtyIndicies, font, screen>>]_vars

\* the third tick after set(0, 0, 'blue'): it found nothing pending and
\* issued no call, the canvas showing blue at the cell
C17_Witness ==
  /\ last.op = "painter" /\ last.n = 3
  /\ context = << >>
  /\ ~dirty /\ dirtyIndicies = << >>
  /\ data[0] = "blue" /\ screen[0] = "blue"

\* how many times the calls paint the led of cell k (the disc of the cell, not
\* the background under it)
LedPaints(calls, k) ==
  Cardinality({n \in 1 .. Len(calls) :
                 calls[n].op = "arc" /\ PaintedBy(calls[n], k)})

\* how many times index k is recorded in the collection
Recorded(indices, k) ==
  Cardinality({n \in 1 .. Len(indices) : indices[n] = k})

\* C18: within one tick every grid cell whose index was accumulated is
\* painted in that tick: exactly once by a full repaint, and once for every
\* time its index was recorded by a sparse repaint.
C18_RecordedCellsPainted ==
  [][last'.op = "painter"
       => \A k \in GridIndices :
            Recorded(dirtyIndicies, k) > 0
              => LedPaints(context', k) =
                   IF dirty THEN 1 ELSE Recorded(dirtyIndicies, k)]_vars

\* C18 as stated: exactly once, however often the index was recorded
C18_AsStated ==
  [][last'.op = "painter"
       => \A k \in GridIndices :
            Recorded(dirtyIndicies, k) > 0 => LedPaints(context', k) = 1]_vars

\* after set(0, 0, 'blue'), set(0, 0, 'red') and two ticks: the second tick
\* painted the cell once for each of the two recorded indices, and drained
\* them
C18_Witness ==
  /\ last.op = "painter" /\ last.n = 2
  /\ data[0] = "red"
  /\ LedPaints(context, 0) = 2
  /\ dirtyIndicies = << >>

\* C19: in every reachable state each grid cell whose last painted color
\* differs from its stored color is covered by the fully-dirty flag or is
\* recorded in the collection of dirty indices; and right after every tick
\* the color last painted over every cell's square equals the stored color.
C19_StaleCellsAreDirty ==
  /\ \A k \in GridIndices :
       screen[k] # data[k] => (dirty \/ Recorded(dirtyIndicies, k) > 0)
  /\ last.op = "painter" => \A k \in GridIndices : screen[k] = data[k]

\* set(1, 1, 'red') issued after a tick, then one more tick: the canvas showed
\* the off color at the cell while its index was pending, and shows red now
C19_Witness ==
  /\ last.op = "painter" /\ last.n = 1
  /\ Len(context) = 2
  /\ data[dot_width + 1] = "red" /\ screen[dot_width + 1] = "red"
  /\ screen[0] = off
  /\ dirtyIndicies = << >>

\* nothing is pending: the flag is false and the collection is empty
Quiescent == ~dirty /\ dirtyIndicies = << >>

\* C20: once the calls have stopped and the timer keeps ticking, the second
\* tick after the last call, at the latest, leaves the fully-dirty flag false
\* and the collection of dirty indices empty, every tick after it issues no
\* drawing-surface call, and the display stays in that state.
C20_TicksReachQuiescence ==
  /\ []((last.op = "painter" /\ last.n >= 2) => Quiescent)
  /\ []((last.op = "painter" /\ last.n >= 3) => context = << >>)
  /\ <>[]Quiescent

\* the second tick after set on the last cell of a fresh display: the first
\* repainted everything, the second the recorded cell, and nothing is pending
C20_Witness ==
  /\ last.op = "painter" /\ last.n = 2
  /\ nCalls = 1
  /\ data[dot_width * dot_height - 1] = "blue"
  /\ Len(context) = 2
  /\ Quiescent

====
